---- MODULE Spec2Model ----
(***************************************************************************)
(* Model of the tool-call orchestration loop of the AI client              *)
(* (src/orchestrator/src/main.rs, run_gpt_computer_use): the bounded       *)
(* conversation history, the reconstruction of streamed tool-call          *)
(* fragments, the concurrent dispatch of tool calls to the MCP peer and    *)
(* the folding of their results back into the history.  The module also    *)
(* models the computer-use loop (src/orchestrator/src/computer_use.rs,     *)
(* main) and the key-press handler of the capability peer                  *)
(* (src/egui/src/main.rs, execute_openai_keypress).                        *)
(*                                                                         *)
(* Conventions: an Option<T> is a sequence of length 0 (None) or 1         *)
(* (Some(x)); a String that the code builds by concatenation is a sequence *)
(* of characters; a String built by format! is the sequence of its pieces. *)
(***************************************************************************)
EXTENDS Integers, Sequences, FiniteSets, TLC

VARIABLES
    conversation_history,   \* VecDeque<ChatCompletionRequestMessage>
    appended,               \* log of every message ever pushed (observer)
    pc,                     \* position of run_gpt_computer_use
    request,                \* messages of the last CreateChatCompletionRequest
    received,               \* items the current stream has yielded (observer)
    full_response_content,  \* String accumulated from delta.content
    partial_tool_calls,     \* HashMap<u32, PartialToolCall>
    final_tool_calls,       \* Vec<ChatCompletionMessageToolCall> of this response
    tool_tasks,             \* Vec<JoinHandle<..>> with the state of each task
    stdout,                 \* printed since the last prompt or loop top
    vision_requests,        \* call ids whose image went to the vision model
    nInputs,                \* lines read from stdin
    nRequests,              \* completion requests built
    nItems,                 \* stream items received
    cu_pc,                  \* position of main in computer_use.rs
    current_request,        \* Request the computer-use loop sends next
    last_response_id,       \* Option<String>
    response,               \* Option<Response>: the response being handled
    cu_trace,               \* requests sent, responses, MCP calls (observer)
    kp_pc,                  \* position of execute_openai_keypress
    params_keys,            \* params.keys: Vec<String>
    key_enums,              \* Vec<Key> built by the validation loop
    key_events,             \* key events enigo has emitted (observer)
    kp_result               \* Option<Result<CallToolResult, ErrorData>>

\* state of the computer-use loop and of the key-press handler
cu_vars == <<cu_pc, current_request, last_response_id, response, cu_trace>>
kp_vars == <<kp_pc, params_keys, key_enums, key_events, kp_result>>

\* state of run_gpt_computer_use
chat_vars == <<conversation_history, appended, pc, request, received,
               full_response_content, partial_tool_calls, final_tool_calls,
               tool_tasks, stdout, vision_requests, nInputs, nRequests,
               nItems>>

vars == <<chat_vars, cu_vars, kp_vars>>

\* the observers that grow without bound
observers == <<appended, nInputs, nRequests, nItems>>

-----------------------------------------------------------------------------
(* Program constants and bounds *)

MAX_CONVERSATION_DEPTH == 15

\* Bounds of the broad, shallow specification Spec: lines read, requests
\* built, and stream items received over all its streams
MaxInputs == 1
MaxRequests == 2
MaxChunks == 2

\* Bounds of the narrow, deep specification SpecDeep
DeepInputs == 3
DeepRequests == 7

\* Bounds of the specification of many short rounds SpecLong
LongInputs == 9
LongRequests == 8

\* Bound of the assembler specification SpecAsm
AsmChunks == 4

None == <<>>
Some(x) == <<x>>

-----------------------------------------------------------------------------
(* Messages *)

SystemMessage ==
    [role |-> "System", content |-> <<"system_prompt">>,
     tool_calls |-> None, tool_call_id |-> None]

UserMessage(text) ==
    [role |-> "User", content |-> <<text>>,
     tool_calls |-> None, tool_call_id |-> None]
\* fault variant: a response that has text keeps no tool calls
AssistantMessageTextFirst(text, calls) ==
    [role |-> "Assistant",
     content |-> IF text = <<>> THEN None ELSE Some(text),
     tool_calls |-> IF calls = <<>> \/ text # <<>> THEN None ELSE Some(calls),
     tool_call_id |-> None]

\* content and tool_calls are None when empty
AssistantMessage(text, calls) ==
    [role |-> "Assistant",
     content |-> IF text = <<>> THEN None ELSE Some(text),
     tool_calls |-> IF calls = <<>> THEN None ELSE Some(calls),
     tool_call_id |-> None]

ToolMessage(call_id, text) ==
    [role |-> "Tool", content |-> text,
     tool_calls |-> None, tool_call_id |-> Some(call_id)]

-----------------------------------------------------------------------------
(* History trimming *)

\* fault variant: pop_front in place of remove(1)
RemoveFront(h) == Tail(h)

\* fault variant: pop_back in place of remove(1)
RemoveBack(h) == SubSeq(h, 1, Len(h) - 1)

\* VecDeque::remove(1): the element at (0-based) index 1 is removed
RemoveIndex1(h) == <<h[1]>> \o SubSeq(h, 3, Len(h))

\* fault variant: `if` in place of `while`, one removal at most
TrimHistoryOnce(h) ==
    IF Len(h) > MAX_CONVERSATION_DEPTH /\ Len(h) >= 2
    THEN RemoveIndex1(h) ELSE h

\* the trim loop at the top of the inner loop
RECURSIVE TrimHistory(_)
TrimHistory(h) ==
    IF Len(h) > MAX_CONVERSATION_DEPTH
    THEN IF Len(h) >= 2 THEN TrimHistory(RemoveIndex1(h)) ELSE h
    ELSE h

\* fault variant: the check is left out
DefensiveCheckNever(h) == FALSE

\* fault variant: the check also looks at the message at index 2
DefensiveCheckTwo(h) ==
    \/ Len(h) >= 2 /\ h[2].role = "Tool"
    \/ Len(h) >= 3 /\ h[3].role = "Tool"

\* the defensive check that follows the trim loop
DefensiveCheckFires(h) == Len(h) >= 2 /\ h[2].role = "Tool"

-----------------------------------------------------------------------------
(* Stream reconstruction *)

DefaultPartialToolCall ==
    [index |-> None, id |-> None, name |-> None, arguments |-> <<>>]

\* fault variant: every chunk is accumulated under key 0 instead of its own index
ApplyFragmentKeyZero(map, frag) ==
    LET old == IF 0 \in DOMAIN map THEN map[0] ELSE DefaultPartialToolCall
        new == [index |-> Some(frag.index),
                id |-> IF frag.id # None THEN frag.id ELSE old.id,
                name |-> IF frag.name # None THEN frag.name ELSE old.name,
                arguments |-> IF frag.arguments # None
                              THEN old.arguments \o frag.arguments[1]
                              ELSE old.arguments]
    IN  [s \in DOMAIN map \cup {0} |-> IF s = 0 THEN new ELSE map[s]]

\* fault variant: the first id and the first name received for a slot are kept
ApplyFragmentFirstWins(map, frag) ==
    LET old == IF frag.index \in DOMAIN map THEN map[frag.index]
               ELSE DefaultPartialToolCall
        new == [index |-> Some(frag.index),
                id |-> IF old.id = None THEN frag.id ELSE old.id,
                name |-> IF old.name = None THEN frag.name ELSE old.name,
                arguments |-> IF frag.arguments # None
                              THEN old.arguments \o frag.arguments[1]
                              ELSE old.arguments]
    IN  [s \in DOMAIN map \cup {frag.index} |->
            IF s = frag.index THEN new ELSE map[s]]

\* fault variant: an argument chunk replaces the argument text received so far
ApplyFragmentReplaceArguments(map, frag) ==
    LET old == IF frag.index \in DOMAIN map THEN map[frag.index]
               ELSE DefaultPartialToolCall
        new == [index |-> Some(frag.index),
                id |-> IF frag.id # None THEN frag.id ELSE old.id,
                name |-> IF frag.name # None THEN frag.name ELSE old.name,
                arguments |-> IF frag.arguments # None
                              THEN frag.arguments[1]
                              ELSE old.arguments]
    IN  [s \in DOMAIN map \cup {frag.index} |->
            IF s = frag.index THEN new ELSE map[s]]

\* one tool_call_chunk of delta.tool_calls applied to the map
ApplyFragment(map, frag) ==
    LET old == IF frag.index \in DOMAIN map THEN map[frag.index]
               ELSE DefaultPartialToolCall
        new == [index |-> Some(frag.index),
                id |-> IF frag.id # None THEN frag.id ELSE old.id,
                name |-> IF frag.name # None THEN frag.name ELSE old.name,
                arguments |-> IF frag.arguments # None
                              THEN old.arguments \o frag.arguments[1]
                              ELSE old.arguments]
    IN  [s \in DOMAIN map \cup {frag.index} |->
            IF s = frag.index THEN new ELSE map[s]]

RECURSIVE ApplyFragments(_, _)
ApplyFragments(map, frags) ==
    IF frags = <<>> THEN map
    ELSE ApplyFragments(ApplyFragment(map, Head(frags)), Tail(frags))

\* delta.content pushed onto full_response_content
ApplyContent(text, content) ==
    IF content # None THEN text \o content[1] ELSE text

\* fault variant: a slot without argument text is not finalized either
IsCompleteWithArguments(partial) ==
    partial.id # None /\ partial.name # None /\ partial.arguments # <<>>

IsComplete(partial) == partial.id # None /\ partial.name # None

ToolCallOf(partial) ==
    [id |-> partial.id[1], name |-> partial.name[1],
     arguments |-> partial.arguments]

\* the finalize loop over partial_tool_calls.into_iter(), which visits the
\* entries in the order `order` (the iteration order of a HashMap)
RECURSIVE Finalize(_, _)
Finalize(map, order) ==
    IF order = <<>> THEN <<>>
    ELSE (IF IsComplete(map[Head(order)])
          THEN <<ToolCallOf(map[Head(order)])>> ELSE <<>>)
         \o Finalize(map, Tail(order))

\* the orders in which a HashMap with the given key set can be iterated
IterationOrders(keys) ==
    {o \in [1..Cardinality(keys) -> keys] :
        \A i, j \in 1..Cardinality(keys) : i # j => o[i] # o[j]}

-----------------------------------------------------------------------------
(* Argument parsing: serde_json::from_str on the characters the model uses *)

Digits == {"1"}

RECURSIVE AllDigits(_)
AllDigits(s) == s = <<>> \/ (Head(s) \in Digits /\ AllDigits(Tail(s)))

\* kind "object": Ok(Value::Object), "other": Ok(_), "err": Err(e)
ParseArguments(s) ==
    IF s = <<>>
    THEN [kind |-> "err", e |-> "EOF while parsing a value"]
    ELSE IF Head(s) = "{"
    THEN IF Len(s) = 1
         THEN [kind |-> "err", e |-> "EOF while parsing an object"]
         ELSE IF s[2] # "}"
         THEN [kind |-> "err", e |-> "key must be a string"]
         ELSE IF Len(s) = 2
         THEN [kind |-> "object", e |-> ""]
         ELSE [kind |-> "err", e |-> "trailing characters"]
    ELSE IF Head(s) \in Digits
    THEN IF AllDigits(s)
         THEN [kind |-> "other", e |-> ""]
         ELSE [kind |-> "err", e |-> "trailing characters"]
    ELSE [kind |-> "err", e |-> "expected value"]

-----------------------------------------------------------------------------
(* Dispatch *)

InvalidArgumentsMessage(tool_name, e) ==
    <<"Invalid JSON arguments provided by AI for tool '", tool_name, "': ", e>>

\* fault variant: unparsable arguments are treated as empty and the task is spawned
SpawnOneLenient(call) ==
    [pushed |-> <<>>,
     spawned |-> <<[call_id |-> call.id, tool_name |-> call.name,
                    arguments |-> IF ParseArguments(call.arguments).kind = "object"
                                  THEN Some("map") ELSE None,
                    result |-> "pending", text |-> ""]>>]

\* fault variant: everything but a JSON object is answered with an error message
SpawnOneStrict(call) ==
    LET parsed == ParseArguments(call.arguments) IN
    IF parsed.kind # "object"
    THEN [pushed |-> <<ToolMessage(call.id,
                          InvalidArgumentsMessage(call.name, parsed.e))>>,
          spawned |-> <<>>]
    ELSE [pushed |-> <<>>,
          spawned |-> <<[call_id |-> call.id, tool_name |-> call.name,
                         arguments |-> Some("map"),
                         result |-> "pending", text |-> ""]>>]

\* what the spawn loop does with one tool call: a Tool message pushed at once
\* and no task, or a spawned task and no message
SpawnOne(call) ==
    LET parsed == ParseArguments(call.arguments) IN
    IF parsed.kind = "err"
    THEN [pushed |-> <<ToolMessage(call.id,
                          InvalidArgumentsMessage(call.name, parsed.e))>>,
          spawned |-> <<>>]
    ELSE [pushed |-> <<>>,
          spawned |-> <<[call_id |-> call.id, tool_name |-> call.name,
                         arguments |-> IF parsed.kind = "object"
                                       THEN Some("map") ELSE None,
                         result |-> "pending", text |-> ""]>>]

\* the spawn loop over final_tool_calls
RECURSIVE SpawnLoop(_)
SpawnLoop(calls) ==
    IF calls = <<>> THEN [pushed |-> <<>>, spawned |-> <<>>]
    ELSE LET one == SpawnOne(Head(calls))
             rest == SpawnLoop(Tail(calls))
         IN  [pushed |-> one.pushed \o rest.pushed,
              spawned |-> one.spawned \o rest.spawned]

\* raw texts a tool can return
RawTexts == {"ok", "{\"width\":1}", "{\"base64_data\":\"QUJD\"}",
             "{\"base64_data\":1}"}

\* json_val.get("base64_data").and_then(|v| v.as_str()) of the parsed text
HasBase64Data(raw) == raw = "{\"base64_data\":\"QUJD\"}"

FailedMcpMessage(tool_name, call_id) ==
    <<"{\"message\":\"Failed MCP execution for tool '", tool_name,
      "' (call_id: '", call_id, "'): ", "ServiceError",
      "\",\"status\":\"error\"}">>

\* the branch of the result loop that calls analyze_image_with_vision
VisionInvoked(task) ==
    /\ task.result = "text"
    /\ task.tool_name = "capture_screen"
    /\ HasBase64Data(task.text)

\* the calls whose screenshot is sent to the vision model, in task order
VisionRequests(tasks) ==
    [k \in 1..Len(SelectSeq(tasks, VisionInvoked)) |->
        SelectSeq(tasks, VisionInvoked)[k].call_id]

\* fault variant: the text of any tool is searched for a screenshot
ResultContentAnyTool(task, vision) ==
    CASE task.result = "text" ->
            IF HasBase64Data(task.text)
            THEN IF vision = "ok"
                 THEN <<"vision description">>
                 ELSE <<"Screenshot captured but vision analysis failed: ",
                        "Vision API call failed">>
            ELSE <<task.text>>
      [] task.result = "nontext" ->
            <<"Tool '", task.tool_name, "' (call_id: '", task.call_id,
              "') returned non-text content.">>
      [] task.result = "empty" ->
            <<"Tool '", task.tool_name, "' (call_id: '", task.call_id,
              "') returned no content.">>
      [] task.result = "mcp_err" ->
            FailedMcpMessage(task.tool_name, task.call_id)

\* the content string computed for one joined task (result "text", "nontext",
\* "empty" or "mcp_err"); vision is the outcome of analyze_image_with_vision
ResultContent(task, vision) ==
    CASE task.result = "text" ->
            IF task.tool_name = "capture_screen"
            THEN IF HasBase64Data(task.text)
                 THEN IF vision = "ok"
                      THEN <<"vision description">>
                      ELSE <<"Screenshot captured but vision analysis failed: ",
                             "Vision API call failed">>
                 ELSE <<task.text>>
            ELSE <<task.text>>
      [] task.result = "nontext" ->
            <<"Tool '", task.tool_name, "' (call_id: '", task.call_id,
              "') returned non-text content.">>
      [] task.result = "empty" ->
            <<"Tool '", task.tool_name, "' (call_id: '", task.call_id,
              "') returned no content.">>
      [] task.result = "mcp_err" ->
            FailedMcpMessage(task.tool_name, task.call_id)

\* fault variant: the result of a call that failed at the peer is dropped
ProcessOneDropFailed(task, vision) ==
    IF task.result \in {"join_err", "mcp_err"} THEN <<>>
    ELSE <<ToolMessage(task.call_id, ResultContent(task, vision))>>

\* fault variant: every result is filed under the id of the first call of the batch
ProcessOneFirstId(task, vision) ==
    IF task.result = "join_err" THEN <<>>
    ELSE <<ToolMessage(final_tool_calls[1].id, ResultContent(task, vision))>>

\* one iteration of the loop over task_results
ProcessOne(task, vision) ==
    IF task.result = "join_err" THEN <<>>
    ELSE <<ToolMessage(task.call_id, ResultContent(task, vision))>>

\* fault variant: the collected Tool messages are never pushed
ProcessResultsNone(tasks, vision) == <<>>

\* fault variant: the results are collected from the last task to the first
RECURSIVE ProcessResultsReversed(_, _)
ProcessResultsReversed(tasks, vision) ==
    IF tasks = <<>> THEN <<>>
    ELSE ProcessResultsReversed(Tail(tasks), Tail(vision))
         \o ProcessOne(Head(tasks), Head(vision))

\* the loop over task_results, filling tool_message_results
RECURSIVE ProcessResults(_, _)
ProcessResults(tasks, vision) ==
    IF tasks = <<>> THEN <<>>
    ELSE ProcessOne(Head(tasks), Head(vision))
         \o ProcessResults(Tail(tasks), Tail(vision))

-----------------------------------------------------------------------------
(* The computer-use loop (src/orchestrator/src/computer_use.rs, main).     *)
(* The model starts where the loop is entered: the MCP peer is connected   *)
(* and the user's task has been read.                                      *)

\* the largest number of requests the model lets the loop send
CuMaxRequests == 3

\* the Request built from the user's task
InitialRequest ==
    [model |-> "ComputerUsePreview", input |-> "UserMessage",
     call_id |-> None, previous_response_id |-> None]

\* the Request built after an executed action: the screenshot as the
\* output of the call call_id
FollowUpRequest(call_id, previous_response_id) ==
    [model |-> "Gpt4o", input |-> "ComputerCallOutput",
     call_id |-> Some(call_id), previous_response_id |-> previous_response_id]

\* output items of a Response
TextItem == [type |-> "Text", call_id |-> "", action |-> ""]
ComputerToolCall(call_id, action) ==
    [type |-> "ComputerToolCall", call_id |-> call_id, action |-> action]

\* response.output.iter().find_map(..): the first computer call, if any
RECURSIVE FirstComputerCall(_)
FirstComputerCall(output) ==
    IF output = <<>> THEN None
    ELSE IF Head(output).type = "ComputerToolCall" THEN Some(Head(output))
    ELSE FirstComputerCall(Tail(output))

\* the action variants the loop hands to the MCP peer, with their tools
HandledActions == {"Click", "Scroll", "KeyPress", "Type", "Wait"}
ToolOfAction(action) ==
    CASE action = "Click" -> "execute_openai_click"
      [] action = "Scroll" -> "execute_openai_scroll"
      [] action = "KeyPress" -> "execute_openai_keypress"
      [] action = "Type" -> "execute_openai_type"
      [] action = "Wait" -> "execute_openai_wait"

\* entries of cu_trace
RequestEvent(req) ==
    [ev |-> "request", request |-> req, response |-> None,
     tool |-> "", ok |-> TRUE]
ResponseEvent(resp) ==
    [ev |-> "response", request |-> None, response |-> resp,
     tool |-> "", ok |-> TRUE]
CallToolEvent(tool, ok) ==
    [ev |-> "call_tool", request |-> None, response |-> None,
     tool |-> tool, ok |-> ok]

InitComputerUse ==
    /\ cu_pc = "create"
    /\ current_request = InitialRequest
    /\ last_response_id = None
    /\ response = None
    /\ cu_trace = <<>>

\* openai_client.create(current_request) failed: main returns the error
CuCreateError ==
    /\ cu_pc = "create"
    /\ cu_pc' = "failed"
    /\ cu_trace' = Append(cu_trace, RequestEvent(Some(current_request)))
    /\ UNCHANGED <<current_request, last_response_id, response>>
    /\ UNCHANGED <<chat_vars, kp_vars>>

\* openai_client.create(current_request) answered with resp
CuCreate(resp) ==
    /\ cu_pc = "create"
    /\ cu_pc' = "respond"
    /\ response' = Some(resp)
    /\ last_response_id' = resp.id
    /\ cu_trace' = cu_trace \o <<RequestEvent(Some(current_request)),
                                ResponseEvent(Some(resp))>>
    /\ UNCHANGED current_request
    /\ UNCHANGED <<chat_vars, kp_vars>>

\* fault variant: the loop goes on to the screenshot after a failed action
CuExecuteIgnoreError(ok) ==
    /\ cu_pc = "respond"
    /\ FirstComputerCall(response[1].output) # None
    /\ LET action == FirstComputerCall(response[1].output)[1].action
       IN  IF action \in HandledActions
           THEN cu_trace' =
                    Append(cu_trace, CallToolEvent(ToolOfAction(action), ok))
           ELSE UNCHANGED cu_trace
    /\ cu_pc' = "capture"
    /\ UNCHANGED <<current_request, last_response_id, response>>
    /\ UNCHANGED <<chat_vars, kp_vars>>

\* the response has a computer call: its action goes to the MCP peer, which
\* executes it (ok) or fails; an action outside HandledActions is an error
\* without any call; an error stops the loop
CuExecute(ok) ==
    /\ cu_pc = "respond"
    /\ FirstComputerCall(response[1].output) # None
    /\ LET action == FirstComputerCall(response[1].output)[1].action
       IN  IF action \in HandledActions
           THEN /\ cu_trace' = Append(cu_trace,
                                   CallToolEvent(ToolOfAction(action), ok))
                /\ cu_pc' = IF ok THEN "capture" ELSE "stopped"
           ELSE /\ UNCHANGED cu_trace
                /\ cu_pc' = "stopped"
    /\ UNCHANGED <<current_request, last_response_id, response>>
    /\ UNCHANGED <<chat_vars, kp_vars>>

\* fault variant: the follow-up request names the previous request's
\* response chain instead of the response just handled
CuCaptureStaleId(ok) ==
    /\ cu_pc = "capture"
    /\ cu_trace' = Append(cu_trace, CallToolEvent("capture_screen", ok))
    /\ IF ok
       THEN /\ current_request' =
                   FollowUpRequest(
                       FirstComputerCall(response[1].output)[1].call_id,
                       current_request.previous_response_id)
            /\ cu_pc' = "create"
       ELSE /\ UNCHANGED current_request
            /\ cu_pc' = "stopped"
    /\ UNCHANGED <<last_response_id, response>>
    /\ UNCHANGED <<chat_vars, kp_vars>>

\* call_capture_screen after the action: with a screenshot (ok) the next
\* request is built and the loop goes round; without one the loop stops
CuCapture(ok) ==
    /\ cu_pc = "capture"
    /\ cu_trace' = Append(cu_trace, CallToolEvent("capture_screen", ok))
    /\ IF ok
       THEN /\ current_request' =
                   FollowUpRequest(
                       FirstComputerCall(response[1].output)[1].call_id,
                       last_response_id)
            /\ cu_pc' = "create"
       ELSE /\ UNCHANGED current_request
            /\ cu_pc' = "stopped"
    /\ UNCHANGED <<last_response_id, response>>
    /\ UNCHANGED <<chat_vars, kp_vars>>

\* the response has no computer call: the final output is printed and the
\* loop ends
CuFinalOutput ==
    /\ cu_pc = "respond"
    /\ FirstComputerCall(response[1].output) = None
    /\ cu_pc' = "stopped"
    /\ UNCHANGED <<current_request, last_response_id, response, cu_trace>>
    /\ UNCHANGED <<chat_vars, kp_vars>>

\* the responses the model lets the API give
CuResponseIds == {None, Some("resp_1"), Some("resp_2")}
CuActions == HandledActions \cup {"Drag"}
CuOutputs ==
    {<<>>, <<TextItem>>}
    \cup {<<ComputerToolCall("call_1", a)>> : a \in CuActions}
    \cup {<<ComputerToolCall("call_2", "Click")>>,
          <<TextItem, ComputerToolCall("call_2", "Scroll")>>,
          <<ComputerToolCall("call_1", "Type"),
            ComputerToolCall("call_2", "Click")>>,
          <<ComputerToolCall("call_1", "Drag"),
            ComputerToolCall("call_2", "Click")>>}
CuResponses == [id : CuResponseIds, output : CuOutputs]

\* requests sent so far
CuRequestsSent ==
    Cardinality({i \in DOMAIN cu_trace : cu_trace[i].ev = "request"})

-----------------------------------------------------------------------------
(* The key-press handler of the capability peer (src/egui/src/main.rs,     *)
(* execute_openai_keypress).  A key name is a String, here the sequence of *)
(* its characters; a Key is <<variant>> or <<"Unicode", character>>.       *)

\* the longest key list the model passes to the handler
MaxKeys == 3

\* char::to_lowercase on the characters the model uses
LowerChar(ch) ==
    CASE ch = "C" -> "c"
      [] ch = "S" -> "s"
      [] ch = "T" -> "t"
      [] OTHER -> ch

\* str::to_lowercase
ToLowercase(s) == [i \in DOMAIN s |-> LowerChar(s[i])]

\* the Key of a key name: Some(key), or None for an unsupported name
KeyOf(key_str) ==
    LET s == ToLowercase(key_str)
    IN  CASE s \in {<<"c", "o", "n", "t", "r", "o", "l">>,
                    <<"c", "t", "r", "l">>} -> Some(<<"Control">>)
          [] s = <<"s", "h", "i", "f", "t">> -> Some(<<"Shift">>)
          [] s = <<"t", "a", "b">> -> Some(<<"Tab">>)
          [] Len(s) = 1 -> Some(<<"Unicode", s[1]>>)
          [] OTHER -> None

\* the keys the validation loop has pushed when it meets the first
\* unsupported name (all of them when there is none)
RECURSIVE KeyEnumsBeforeUnsupported(_)
KeyEnumsBeforeUnsupported(keys) ==
    IF keys = <<>> \/ KeyOf(Head(keys)) = None THEN <<>>
    ELSE KeyOf(Head(keys)) \o KeyEnumsBeforeUnsupported(Tail(keys))

\* the key_enums the validation loop builds when it runs to its end
RECURSIVE KeyEnums(_)
KeyEnums(keys) ==
    IF keys = <<>> THEN <<>>
    ELSE KeyOf(Head(keys)) \o KeyEnums(Tail(keys))

\* results of the handler
KpSuccess == [is_ok |-> TRUE, code |-> "success", failed |-> ""]
KpInternalError(failed) ==
    [is_ok |-> FALSE, code |-> "INTERNAL_ERROR", failed |-> failed]
KpInvalidParams ==
    [is_ok |-> FALSE, code |-> "INVALID_PARAMS", failed |-> "Unsupported key"]

\* entries of key_events
PressEvent(key) == <<"Press", key>>
ReleaseEvent(key) == <<"Release", key>>

\* reversed sequence: key_enums.iter().rev()
Reverse(s) == [i \in DOMAIN s |-> s[Len(s) + 1 - i]]

\* number of Press (Release) events emitted so far
NumPressed == Cardinality({i \in DOMAIN key_events : key_events[i][1] = "Press"})
NumReleased ==
    Cardinality({i \in DOMAIN key_events : key_events[i][1] = "Release"})

InitKeypress ==
    /\ kp_pc = "idle"
    /\ params_keys = <<>>
    /\ key_enums = <<>>
    /\ key_events = <<>>
    /\ kp_result = None

\* the handler is called with keys; Enigo::new succeeds (enigo_ok) or the
\* handler returns an internal error
KpCall(keys, enigo_ok) ==
    /\ kp_pc = "idle"
    /\ params_keys' = keys
    /\ IF enigo_ok
       THEN kp_pc' = "validate" /\ UNCHANGED kp_result
       ELSE kp_pc' = "returned" /\ kp_result' = Some(KpInternalError("Enigo::new"))
    /\ UNCHANGED <<key_enums, key_events>>
    /\ UNCHANGED <<chat_vars, cu_vars>>

\* fault variant: the keys before the first unsupported name are pressed
\* before the error is returned
KpValidatePressing ==
    /\ kp_pc = "validate"
    /\ IF \E i \in DOMAIN params_keys : KeyOf(params_keys[i]) = None
       THEN /\ kp_pc' = "returned"
            /\ kp_result' = Some(KpInvalidParams)
            /\ key_enums' = KeyEnumsBeforeUnsupported(params_keys)
            /\ key_events' =
                   [i \in DOMAIN key_enums' |-> PressEvent(key_enums'[i])]
       ELSE /\ kp_pc' = "press"
            /\ key_enums' = KeyEnums(params_keys)
            /\ UNCHANGED <<kp_result, key_events>>
    /\ UNCHANGED params_keys
    /\ UNCHANGED <<chat_vars, cu_vars>>

\* the validation loop: every name is mapped to its Key; the first
\* unsupported name returns an invalid-params error
KpValidate ==
    /\ kp_pc = "validate"
    /\ IF \E i \in DOMAIN params_keys : KeyOf(params_keys[i]) = None
       THEN /\ kp_pc' = "returned"
            /\ kp_result' = Some(KpInvalidParams)
            /\ key_enums' = KeyEnumsBeforeUnsupported(params_keys)
       ELSE /\ kp_pc' = "press"
            /\ key_enums' = KeyEnums(params_keys)
            /\ UNCHANGED kp_result
    /\ UNCHANGED <<params_keys, key_events>>
    /\ UNCHANGED <<chat_vars, cu_vars>>

\* one turn of the press loop: the next key goes down (ok), or enigo fails
\* and the handler returns an internal error; after the last key the
\* release loop starts
KpPress(ok) ==
    /\ kp_pc = "press"
    /\ IF NumPressed = Len(key_enums)
       THEN kp_pc' = "release" /\ UNCHANGED <<kp_result, key_events>>
       ELSE IF ok
       THEN /\ key_events' =
                   Append(key_events, PressEvent(key_enums[NumPressed + 1]))
            /\ UNCHANGED <<kp_pc, kp_result>>
       ELSE /\ kp_pc' = "returned"
            /\ kp_result' = Some(KpInternalError("press"))
            /\ UNCHANGED key_events
    /\ UNCHANGED <<params_keys, key_enums>>
    /\ UNCHANGED <<chat_vars, cu_vars>>

\* fault variant: the release loop runs in the order of the presses
KpReleaseForward(ok) ==
    /\ kp_pc = "release"
    /\ IF NumReleased = Len(key_enums)
       THEN kp_pc' = "returned" /\ kp_result' = Some(KpSuccess)
                                /\ UNCHANGED key_events
       ELSE IF ok
       THEN /\ key_events' =
                   Append(key_events, ReleaseEvent(key_enums[NumReleased + 1]))
            /\ UNCHANGED <<kp_pc, kp_result>>
       ELSE /\ kp_pc' = "returned"
            /\ kp_result' = Some(KpInternalError("release"))
            /\ UNCHANGED key_events
    /\ UNCHANGED <<params_keys, key_enums>>
    /\ UNCHANGED <<chat_vars, cu_vars>>

\* one turn of the release loop, over the keys in reverse: the next key
\* goes up (ok), or enigo fails and the handler returns an internal error;
\* after the last release the handler returns success
KpRelease(ok) ==
    /\ kp_pc = "release"
    /\ IF NumReleased = Len(key_enums)
       THEN kp_pc' = "returned" /\ kp_result' = Some(KpSuccess)
                                /\ UNCHANGED key_events
       ELSE IF ok
       THEN /\ key_events' =
                   Append(key_events,
                          ReleaseEvent(Reverse(key_enums)[NumReleased + 1]))
            /\ UNCHANGED <<kp_pc, kp_result>>
       ELSE /\ kp_pc' = "returned"
            /\ kp_result' = Some(KpInternalError("release"))
            /\ UNCHANGED key_events
    /\ UNCHANGED <<params_keys, key_enums>>
    /\ UNCHANGED <<chat_vars, cu_vars>>

\* the key names and key lists the model passes to the handler
KeyNames ==
    {<<"c", "t", "r", "l">>, <<"S", "h", "i", "f", "t">>, <<"C">>,
     <<"h", "y", "p", "e", "r">>}
RECURSIVE SeqsUpTo(_, _)
SeqsUpTo(S, n) ==
    IF n = 0 THEN {<<>>}
    ELSE LET shorter == SeqsUpTo(S, n - 1)
         IN  shorter \cup {Append(s, x) : s \in shorter, x \in S}
KeyLists == SeqsUpTo(KeyNames, MaxKeys)

-----------------------------------------------------------------------------
(* Initial state: the system prompt has been pushed, the input loop starts *)

Init ==
    /\ conversation_history = <<SystemMessage>>
    /\ appended = <<SystemMessage>>
    /\ pc = "input"
    /\ request = <<>>
    /\ received = <<>>
    /\ full_response_content = <<>>
    /\ partial_tool_calls = <<>>
    /\ final_tool_calls = <<>>
    /\ tool_tasks = <<>>
    /\ stdout = <<>>
    /\ vision_requests = <<>>
    /\ nInputs = 0
    /\ nRequests = 0
    /\ nItems = 0
    /\ InitComputerUse
    /\ InitKeypress

-----------------------------------------------------------------------------
(* Actions.  Each action X is XCore, what the code does to the program     *)
(* state, together with its effect on the observers appended, nInputs,     *)
(* nRequests and nItems.                                                   *)

PromptNotice == "Enter your request (or type 'quit'):"
InternalErrorNotice ==
    "Internal error: Invalid conversation history state detected. Please report this."
StreamingNotice == "Assistant (Streaming): "
CreateErrorNotice == "Error starting communication with OpenAI. Check logs."
StreamErrorNotice == "Error during streaming response from OpenAI."
EmptyResponseNotice == "Assistant provided an empty response."
Newline == "\n"

\* the messages an action has pushed at the tail of the history
Pushed ==
    SubSeq(conversation_history', Len(conversation_history) + 1,
           Len(conversation_history'))

\* the prompt is printed and one line is read from stdin (already trimmed)
ReadInputCore(line) ==
    /\ pc = "input"
    /\ stdout' = <<PromptNotice>>
    /\ IF line = "quit"
       THEN /\ pc' = "exit"
            /\ UNCHANGED conversation_history
       ELSE IF line = ""
       THEN UNCHANGED <<pc, conversation_history>>
       ELSE /\ conversation_history' =
                    Append(conversation_history, UserMessage(line))
            /\ pc' = "loop"
    /\ UNCHANGED <<request, received, full_response_content,
                   partial_tool_calls, final_tool_calls, tool_tasks>>
    /\ UNCHANGED vision_requests
    /\ UNCHANGED <<cu_vars, kp_vars>>

ReadInput(line) ==
    /\ ReadInputCore(line)
    /\ nInputs' = nInputs + 1
    /\ appended' = appended \o Pushed
    /\ UNCHANGED <<nRequests, nItems>>

\* fault variant: the request is built from the history as it was before the trim
TrimAndRequestUntrimmed ==
    /\ pc = "loop"
    /\ LET h == TrimHistory(conversation_history) IN
       /\ conversation_history' = h
       /\ IF DefensiveCheckFires(h)
          THEN /\ pc' = "input"
               /\ stdout' = <<InternalErrorNotice>>
               /\ UNCHANGED request
          ELSE /\ pc' = "awaiting"
               /\ stdout' = <<>>
               /\ request' = conversation_history
    /\ received' = <<>>
    /\ full_response_content' = <<>>
    /\ partial_tool_calls' = <<>>
    /\ final_tool_calls' = <<>>
    /\ tool_tasks' = <<>>
    /\ vision_requests' = <<>>
    /\ UNCHANGED <<cu_vars, kp_vars>>

\* top of the inner loop: trim, defensive check, build the request.  The
\* locals of the previous iteration (declared inside the loop body) are out of
\* scope here.
TrimAndRequestCore ==
    /\ pc = "loop"
    /\ LET h == TrimHistory(conversation_history) IN
       /\ conversation_history' = h
       /\ IF DefensiveCheckFires(h)
          THEN /\ pc' = "input"
               /\ stdout' = <<InternalErrorNotice>>
               /\ UNCHANGED request
          ELSE /\ pc' = "awaiting"
               /\ stdout' = <<>>
               /\ request' = h
    /\ received' = <<>>
    /\ full_response_content' = <<>>
    /\ partial_tool_calls' = <<>>
    /\ final_tool_calls' = <<>>
    /\ tool_tasks' = <<>>
    /\ vision_requests' = <<>>
    /\ UNCHANGED <<cu_vars, kp_vars>>

TrimAndRequest ==
    /\ TrimAndRequestCore
    /\ nRequests' = IF pc' = "awaiting" THEN nRequests + 1 ELSE nRequests
    /\ UNCHANGED <<appended, nInputs, nItems>>

\* create_stream returned Ok: the per-response locals are initialised
StreamCreatedCore ==
    /\ pc = "awaiting"
    /\ pc' = "stream"
    /\ received' = <<>>
    /\ full_response_content' = <<>>
    /\ partial_tool_calls' = <<>>
    /\ final_tool_calls' = <<>>
    /\ tool_tasks' = <<>>
    /\ stdout' = Append(stdout, StreamingNotice)
    /\ UNCHANGED <<conversation_history, request>>
    /\ UNCHANGED vision_requests
    /\ UNCHANGED <<cu_vars, kp_vars>>

StreamCreated ==
    /\ StreamCreatedCore
    /\ UNCHANGED <<appended, nInputs, nRequests, nItems>>

\* fault variant: the failed request takes the last message back out of the history
StreamCreateErrorPop ==
    /\ pc = "awaiting"
    /\ pc' = "input"
    /\ conversation_history' =
           SubSeq(conversation_history, 1, Len(conversation_history) - 1)
    /\ UNCHANGED <<appended, request, received,
                   full_response_content, partial_tool_calls,
                   final_tool_calls, tool_tasks, stdout,
                   nInputs, nRequests, nItems>>
    /\ UNCHANGED vision_requests
    /\ UNCHANGED <<cu_vars, kp_vars>>

\* create_stream returned Err: break out of the inner loop
StreamCreateErrorCore ==
    /\ pc = "awaiting"
    /\ pc' = "input"
    /\ stdout' = Append(stdout, CreateErrorNotice)
    /\ UNCHANGED <<conversation_history, request, received,
                   full_response_content, partial_tool_calls,
                   final_tool_calls, tool_tasks>>
    /\ UNCHANGED vision_requests
    /\ UNCHANGED <<cu_vars, kp_vars>>

StreamCreateError ==
    /\ StreamCreateErrorCore
    /\ UNCHANGED <<appended, nInputs, nRequests, nItems>>

\* stream.next() yielded Some(item): Ok(stream_response) with one choice, or
\* Err(e), which is logged, reported on stdout and otherwise ignored
StreamItemCore(item) ==
    /\ pc = "stream"
    /\ received' = Append(received, item)
    /\ IF item.kind = "chunk"
       THEN /\ full_response_content' =
                    ApplyContent(full_response_content, item.content)
            /\ stdout' = ApplyContent(stdout, item.content)
            /\ partial_tool_calls' =
                    ApplyFragments(partial_tool_calls, item.tool_calls)
       ELSE /\ stdout' = Append(stdout, StreamErrorNotice)
            /\ UNCHANGED <<full_response_content, partial_tool_calls>>
    /\ UNCHANGED <<conversation_history, pc, request,
                   final_tool_calls, tool_tasks>>
    /\ UNCHANGED vision_requests
    /\ UNCHANGED <<cu_vars, kp_vars>>

StreamItem(item) ==
    /\ StreamItemCore(item)
    /\ nItems' = nItems + 1
    /\ UNCHANGED <<appended, nInputs, nRequests>>

\* stream.next() yielded None: finalize the tool calls, push the Assistant
\* message, and either run the spawn loop or leave the inner loop
StreamEndCore(order) ==
    /\ pc = "stream"
    /\ LET calls == Finalize(partial_tool_calls, order)
           assistant == AssistantMessage(full_response_content, calls)
           loop == SpawnLoop(calls)
       IN  /\ final_tool_calls' = calls
           /\ conversation_history' =
                  Append(conversation_history, assistant) \o loop.pushed
           /\ tool_tasks' = loop.spawned
           /\ pc' = IF calls # <<>> THEN "joining" ELSE "input"
           /\ stdout' = IF calls = <<>> /\ full_response_content = <<>>
                        THEN stdout \o <<Newline, EmptyResponseNotice>>
                        ELSE Append(stdout, Newline)
    /\ UNCHANGED <<request, received, full_response_content,
                   partial_tool_calls>>
    /\ UNCHANGED vision_requests
    /\ UNCHANGED <<cu_vars, kp_vars>>

StreamEnd(order) ==
    /\ StreamEndCore(order)
    /\ appended' = appended \o Pushed
    /\ UNCHANGED <<nInputs, nRequests, nItems>>

\* fault variant: a finished task pushes its own Tool message at once
TaskCompletePush(i, result, text) ==
    /\ pc = "joining"
    /\ i \in DOMAIN tool_tasks
    /\ tool_tasks[i].result = "pending"
    /\ tool_tasks' = [tool_tasks EXCEPT ![i].result = result, ![i].text = text]
    /\ conversation_history' =
           conversation_history \o ProcessOne(tool_tasks'[i], "ok")
    /\ UNCHANGED <<appended, pc, request, received,
                   full_response_content, partial_tool_calls,
                   final_tool_calls, stdout, nInputs, nRequests, nItems>>
    /\ UNCHANGED vision_requests
    /\ UNCHANGED <<cu_vars, kp_vars>>

\* a spawned task finishes: call_tool returned, or the task itself failed
TaskCompleteCore(i, result, text) ==
    /\ pc = "joining"
    /\ i \in DOMAIN tool_tasks
    /\ tool_tasks[i].result = "pending"
    /\ tool_tasks' = [tool_tasks EXCEPT ![i].result = result, ![i].text = text]
    /\ UNCHANGED <<conversation_history, pc, request, received,
                   full_response_content, partial_tool_calls,
                   final_tool_calls, stdout>>
    /\ UNCHANGED vision_requests
    /\ UNCHANGED <<cu_vars, kp_vars>>

TaskComplete(i, result, text) ==
    /\ TaskCompleteCore(i, result, text)
    /\ UNCHANGED <<appended, nInputs, nRequests, nItems>>

\* fault variant: the dispatcher goes on as soon as one task has finished and
\* leaves the others behind
JoinAllFirst(vision) ==
    /\ pc = "joining"
    /\ \E i \in DOMAIN tool_tasks : tool_tasks[i].result # "pending"
    /\ conversation_history' =
           conversation_history
           \o ProcessResults(
                  SelectSeq(tool_tasks, LAMBDA t : t.result # "pending"), vision)
    /\ pc' = "loop"
    /\ UNCHANGED <<request, received, full_response_content,
                   partial_tool_calls, final_tool_calls, tool_tasks, stdout>>
    /\ vision_requests' = VisionRequests(tool_tasks)
    /\ UNCHANGED <<cu_vars, kp_vars>>

\* join_all returned: process the results in task order, push the collected
\* Tool messages and continue the inner loop
JoinAllCore(vision) ==
    /\ pc = "joining"
    /\ \A i \in DOMAIN tool_tasks : tool_tasks[i].result # "pending"
    /\ conversation_history' =
           conversation_history \o ProcessResults(tool_tasks, vision)
    /\ pc' = "loop"
    /\ UNCHANGED <<request, received, full_response_content,
                   partial_tool_calls, final_tool_calls, tool_tasks, stdout>>
    /\ vision_requests' = VisionRequests(tool_tasks)
    /\ UNCHANGED <<cu_vars, kp_vars>>

JoinAll(vision) ==
    /\ JoinAllCore(vision)
    /\ appended' = appended \o Pushed
    /\ UNCHANGED <<nInputs, nRequests, nItems>>

-----------------------------------------------------------------------------
(* Inputs *)

Lines == {"quit", "", "click the button"}

Slots == {0, 1}

\* the characters of three argument chunks
ArgChunks == {<<"{", "}">>, <<"1">>, <<"{", "i", "n", "v", "a", "l", "i", "d">>}

\* tool_call_chunks of the broad specification: each chunk carries the call
\* id of its slot, a name and one arguments chunk; slot 0 names either tool,
\* slot 1 names click
CallIdOfSlot(s) == IF s = 0 THEN "c1" ELSE "c2"

NamesOfSlot(s) == IF s = 0 THEN {"click", "capture_screen"} ELSE {"click"}

Fragments ==
    UNION {{[index |-> s, id |-> Some(CallIdOfSlot(s)), name |-> Some(n),
             arguments |-> Some(a)] : n \in NamesOfSlot(s), a \in ArgChunks}
           : s \in Slots}

ErrItem == [kind |-> "err", content |-> None, tool_calls |-> <<>>]

ContentItem(text) ==
    [kind |-> "chunk", content |-> Some(text), tool_calls |-> <<>>]

FragmentsItem(frags) ==
    [kind |-> "chunk", content |-> None, tool_calls |-> frags]

\* what a task can end with, as <<result, text>>: capture_screen returns any
\* kind of content, click returns text
PeerResults(tool_name) ==
    {<<"mcp_err", "">>, <<"join_err", "">>}
    \cup (IF tool_name = "capture_screen"
          THEN {<<"text", raw>> : raw \in RawTexts}
               \cup {<<"nontext", "">>, <<"empty", "">>}
          ELSE {<<"text", "ok">>, <<"text", "{\"base64_data\":\"QUJD\"}">>})

VisionOutcomes == {"ok", "fail"}

StreamEndSome ==
    \E order \in IterationOrders(DOMAIN partial_tool_calls) : StreamEnd(order)

JoinAllSome ==
    \E vision \in [1..Len(tool_tasks) -> VisionOutcomes] : JoinAll(vision)

-----------------------------------------------------------------------------
(* Spec: every kind of stream item, task result and input; one short round *)

Next ==
    \/ nInputs < MaxInputs /\ \E line \in Lines : ReadInput(line)
    \/ nRequests < MaxRequests /\ TrimAndRequest
    \/ StreamCreated
    \/ StreamCreateError
    \/ nItems < MaxChunks /\
          \E item \in {FragmentsItem(<<f>>) : f \in Fragments}
                      \cup {ContentItem(<<"D">>), ErrItem} : StreamItem(item)
    \/ StreamEndSome
    \/ \E i \in DOMAIN tool_tasks :
          \E r \in PeerResults(tool_tasks[i].tool_name) : TaskComplete(i, r[1], r[2])
    \/ JoinAllSome

Spec == Init /\ [][Next]_vars

-----------------------------------------------------------------------------
(* SpecDeep: few kinds of response, many requests, so that the history     *)
(* grows past MAX_CONVERSATION_DEPTH and is trimmed                        *)

ClickFragment(s, id) ==
    [index |-> s, id |-> Some(id), name |-> Some("click"),
     arguments |-> Some(<<"{", "}">>)]

\* a call whose arguments are not JSON
InvalidFragment(s, id) ==
    [index |-> s, id |-> Some(id), name |-> Some("click"),
     arguments |-> Some(<<"{", "i", "n", "v", "a", "l", "i", "d">>)]

\* a text answer, one call, or two calls of which the second does not parse
DeepItems ==
    {ContentItem(<<"D">>),
     FragmentsItem(<<ClickFragment(0, "c1")>>),
     FragmentsItem(<<ClickFragment(0, "c1"), InvalidFragment(1, "c2")>>)}

NextDeep ==
    \/ nInputs < DeepInputs /\ ReadInput("click the button")
    \/ nRequests < DeepRequests /\ TrimAndRequest
    \/ StreamCreated
    \/ StreamCreateError
    \/ received = <<>> /\ \E item \in DeepItems : StreamItem(item)
    \/ received # <<>> /\ StreamEndSome
    \/ \E i \in DOMAIN tool_tasks : TaskComplete(i, "text", "ok")
    \/ JoinAllSome

SpecDeep == Init /\ [][NextDeep]_vars

-----------------------------------------------------------------------------
(* SpecAsm: the reconstruction of one response from longer streams.  It    *)
(* starts where the first stream of the first round has been created.      *)

AsmFragments ==
    UNION {{[index |-> s, id |-> Some("c1"), name |-> None, arguments |-> None],
            [index |-> s, id |-> Some("c2"), name |-> None, arguments |-> None],
            [index |-> s, id |-> None, name |-> Some("click"), arguments |-> None],
            [index |-> s, id |-> None, name |-> None, arguments |-> Some(<<"{">>)],
            [index |-> s, id |-> None, name |-> None, arguments |-> Some(<<"}">>)],
            [index |-> s, id |-> Some("c1"), name |-> Some("capture_screen"),
             arguments |-> Some(<<>>)]} : s \in Slots}

InitAsm ==
    /\ conversation_history = <<SystemMessage, UserMessage("click the button")>>
    /\ appended = conversation_history
    /\ pc = "stream"
    /\ request = conversation_history
    /\ received = <<>>
    /\ full_response_content = <<>>
    /\ partial_tool_calls = <<>>
    /\ final_tool_calls = <<>>
    /\ tool_tasks = <<>>
    /\ stdout = <<StreamingNotice>>
    /\ vision_requests = <<>>
    /\ nInputs = 1
    /\ nRequests = 1
    /\ nItems = 0
    /\ InitComputerUse
    /\ InitKeypress

NextAsm ==
    \/ Len(received) < AsmChunks /\
          \E item \in {FragmentsItem(<<f>>) : f \in AsmFragments}
                      \cup {ContentItem(<<"D">>)} : StreamItem(item)
    \/ StreamEndSome

SpecAsm == InitAsm /\ [][NextAsm]_vars

-----------------------------------------------------------------------------
(* SpecLong: many short rounds, so that the history grows past             *)
(* MAX_CONVERSATION_DEPTH by User and Assistant messages alone as well as   *)
(* by dispatch cycles                                                       *)

NextLong ==
    \/ nInputs < LongInputs /\ ReadInput("click the button")
    \/ nRequests < LongRequests /\ TrimAndRequest
    \/ StreamCreated
    \/ received = <<>> /\ \E item \in DeepItems : StreamItem(item)
    \/ received # <<>> /\ StreamEndSome
    \/ \E i \in DOMAIN tool_tasks : TaskComplete(i, "text", "ok")
    \/ JoinAllSome

SpecLong == Init /\ [][NextLong]_vars

-----------------------------------------------------------------------------
(* SpecLive: the rounds without the observers, which stay as they are, so  *)
(* that a round that goes on forever revisits its states.  The steps of a  *)
(* round are weakly fair: the runtime keeps polling the task, and every    *)
(* awaited request, stream and tool task eventually yields.  Reading a     *)
(* line waits for the user and is not fair.                                *)

LiveItems == {ContentItem(<<"D">>), FragmentsItem(<<ClickFragment(0, "c1")>>)}

RoundStep ==
    \/ TrimAndRequestCore
    \/ StreamCreatedCore
    \/ StreamCreateErrorCore
    \/ received = <<>> /\ \E item \in LiveItems : StreamItemCore(item)
    \/ received # <<>> /\
          \E order \in IterationOrders(DOMAIN partial_tool_calls) :
              StreamEndCore(order)
    \/ \E i \in DOMAIN tool_tasks : TaskCompleteCore(i, "text", "ok")
    \/ \E vision \in [DOMAIN tool_tasks -> VisionOutcomes] : JoinAllCore(vision)

NextLive ==
    \/ ReadInputCore("click the button") /\ UNCHANGED observers
    \/ RoundStep /\ UNCHANGED observers

SpecLive == Init /\ [][NextLive]_vars /\ WF_vars(RoundStep /\ UNCHANGED observers)

-----------------------------------------------------------------------------
(* The computer-use loop on its own *)

NextCU ==
    \/ CuRequestsSent < CuMaxRequests /\ CuCreateError
    \/ CuRequestsSent < CuMaxRequests /\ \E resp \in CuResponses : CuCreate(resp)
    \/ \E ok \in BOOLEAN : CuExecute(ok)
    \/ \E ok \in BOOLEAN : CuCapture(ok)
    \/ CuFinalOutput

SpecCU == Init /\ [][NextCU]_vars

-----------------------------------------------------------------------------
(* One call of the key-press handler on its own *)

NextKeys ==
    \/ \E keys \in KeyLists, enigo_ok \in BOOLEAN : KpCall(keys, enigo_ok)
    \/ KpValidate
    \/ \E ok \in BOOLEAN : KpPress(ok)
    \/ \E ok \in BOOLEAN : KpRelease(ok)

SpecKeys == Init /\ [][NextKeys]_vars

-----------------------------------------------------------------------------
(* Observers used by the properties *)

Range(seq) == {seq[i] : i \in DOMAIN seq}

Last(seq) == seq[Len(seq)]

\* index of the last Assistant message of h, 0 when there is none
LastAssistant(h) ==
    LET idx == {i \in DOMAIN h : h[i].role = "Assistant"} IN
    IF idx = {} THEN 0 ELSE CHOOSE i \in idx : \A j \in idx : j <= i

\* the messages that follow the last Assistant message
BatchResults ==
    SubSeq(conversation_history, LastAssistant(conversation_history) + 1,
           Len(conversation_history))

\* a dispatch cycle has just ended: join_all returned and the Tool messages
\* of the batch final_tool_calls were pushed
AfterDispatch == pc = "loop" /\ final_tool_calls # <<>>

\* some spawned invocation has not finished
InFlight == \E i \in DOMAIN tool_tasks : tool_tasks[i].result = "pending"

CallsWithId(id) == {j \in DOMAIN final_tool_calls : final_tool_calls[j].id = id}

TasksWithId(id) == {i \in DOMAIN tool_tasks : tool_tasks[i].call_id = id}

ResultsWithId(id) ==
    {m \in DOMAIN BatchResults :
        /\ BatchResults[m].role = "Tool"
        /\ BatchResults[m].tool_call_id = Some(id)}

IsInvalidArgumentsContent(content) ==
    /\ Len(content) = 4
    /\ content[1] = "Invalid JSON arguments provided by AI for tool '"
    /\ content[4] # ""

IsFailedMcpContent(content) ==
    /\ Len(content) = 7
    /\ content[1] = "{\"message\":\"Failed MCP execution for tool '"

HasStreamError == \E k \in DOMAIN received : received[k].kind = "err"

-----------------------------------------------------------------------------
(* C1 *)

\* C1 (as claimed): after a dispatch cycle the history holds exactly one Tool
\* message per call id of the batch, as many as there are calls with that id,
\* whatever the outcome of each call.
C1_OneResultPerCall ==
    AfterDispatch =>
        \A k \in DOMAIN final_tool_calls :
            Cardinality(ResultsWithId(final_tool_calls[k].id))
                = Cardinality(CallsWithId(final_tool_calls[k].id))

-----------------------------------------------------------------------------
(* C2 *)

\* C2: after a dispatch cycle in which an invocation failed at the peer, each
\* failed invocation has an error result under its call id, each sibling that
\* returned text has a result under its call id (the returned text itself for
\* every tool but capture_screen), and when every invocation came back from the
\* peer there are as many results as calls in the batch.
C2_DispatchIsolation ==
    (AfterDispatch /\ \E i \in DOMAIN tool_tasks : tool_tasks[i].result = "mcp_err")
    =>
    /\ \A i \in DOMAIN tool_tasks :
          LET t == tool_tasks[i] IN
          /\ t.result = "mcp_err" =>
                \E m \in ResultsWithId(t.call_id) :
                    IsFailedMcpContent(BatchResults[m].content)
          /\ t.result = "text" =>
                \E m \in ResultsWithId(t.call_id) :
                    /\ ~IsFailedMcpContent(BatchResults[m].content)
                    /\ t.tool_name # "capture_screen" =>
                           BatchResults[m].content = <<t.text>>
    /\ (\A i \in DOMAIN tool_tasks : tool_tasks[i].result # "join_err")
          => Len(BatchResults) = Len(final_tool_calls)

C2_Witness ==
    /\ AfterDispatch
    /\ Len(tool_tasks) = 2
    /\ tool_tasks[1].result = "mcp_err"
    /\ tool_tasks[2].result = "text"
    /\ tool_tasks[2].tool_name = "click"
    /\ tool_tasks[1].call_id # tool_tasks[2].call_id
    /\ Len(BatchResults) = 2
    /\ BatchResults[2].content = <<"ok">>

-----------------------------------------------------------------------------
(* C3 *)

\* C3: the first message of the history is always the System message that
\* was pushed first.
C3_SystemAtIndex0 ==
    /\ Len(conversation_history) >= 1
    /\ conversation_history[1] = appended[1]
    /\ conversation_history[1].role = "System"

C3_Witness ==
    /\ Len(appended) > Len(conversation_history) + 1
    /\ conversation_history[1] = SystemMessage

-----------------------------------------------------------------------------
(* C4 *)

\* C4 (as claimed): the history never holds more than MAX_CONVERSATION_DEPTH
\* messages, eviction being part of every append.
C4_LengthAfterEveryAppend ==
    Len(conversation_history) <= MAX_CONVERSATION_DEPTH

\* C4 (amended): eviction runs at the top of each inner-loop iteration; while
\* a request is awaiting its response the history holds at most
\* MAX_CONVERSATION_DEPTH messages, and exactly that many once 16 or more
\* messages have been pushed.
C4_LengthAfterTrim ==
    pc = "awaiting" =>
        /\ Len(conversation_history) <= MAX_CONVERSATION_DEPTH
        /\ Len(appended) > MAX_CONVERSATION_DEPTH =>
              Len(conversation_history) = MAX_CONVERSATION_DEPTH

C4_Witness ==
    /\ pc = "awaiting"
    /\ Len(appended) = MAX_CONVERSATION_DEPTH + 2
    /\ Len(conversation_history) = MAX_CONVERSATION_DEPTH
    /\ conversation_history[1] = SystemMessage

-----------------------------------------------------------------------------
(* C5 *)

RECURSIVE AllFragments(_)
AllFragments(items) ==
    IF items = <<>> THEN <<>>
    ELSE Head(items).tool_calls \o AllFragments(Tail(items))

\* the fragments received for slot s, in arrival order
SlotFragments(s) ==
    SelectSeq(AllFragments(received), LAMBDA f : f.index = s)

\* the received fragments regrouped: each slot's fragments in one batch
RECURSIVE GroupedBySlot(_)
GroupedBySlot(S) ==
    IF S = {} THEN <<>>
    ELSE LET s == CHOOSE x \in S : \A y \in S : x <= y
         IN  SlotFragments(s) \o GroupedBySlot(S \ {s})

CompletedCalls(map) ==
    {ToolCallOf(map[s]) : s \in {t \in DOMAIN map : IsComplete(map[t])}}

\* C5: the set of tool calls produced at stream end from the fragments in
\* their arrival order equals the set obtained by applying each slot's
\* fragments in one contiguous batch.
C5_AssemblerDeterminism ==
    pc # "stream" =>
        Range(final_tool_calls)
            = CompletedCalls(ApplyFragments(<<>>, GroupedBySlot(Slots)))

\* two calls were completed from fragments of two slots that arrived interleaved
C5_Witness ==
    /\ pc # "stream"
    /\ Cardinality(Range(final_tool_calls)) = 2
    /\ LET fr == AllFragments(received) IN
       \E i, j, k \in DOMAIN fr :
           /\ i < j /\ j < k
           /\ fr[i].index = fr[k].index
           /\ fr[i].index # fr[j].index

-----------------------------------------------------------------------------
(* C6 *)

\* C6 (as claimed): while an invocation of the batch is in flight the history
\* holds no Tool message of the batch.
C6_NoBatchResultWhileInFlight == InFlight => BatchResults = <<>>

\* C6 (amended): while an invocation of the batch is in flight the history
\* holds no result of a spawned invocation; the only Tool messages of the
\* batch are the ones the spawn loop pushed for unparsable arguments, one for
\* each call that was not spawned.
C6_NoSpawnedResultWhileInFlight ==
    InFlight =>
        /\ \A m \in DOMAIN BatchResults :
              /\ BatchResults[m].role = "Tool"
              /\ IsInvalidArgumentsContent(BatchResults[m].content)
        /\ Len(BatchResults) + Len(tool_tasks) = Len(final_tool_calls)

\* one invocation has returned, its sibling has not, and the result of the
\* first is not in the history
C6_Witness ==
    /\ InFlight
    /\ Len(tool_tasks) = 2
    /\ tool_tasks[1].result = "text"
    /\ tool_tasks[2].result = "pending"
    /\ BatchResults = <<>>

-----------------------------------------------------------------------------
(* C7 *)

\* C7: a step in which create_stream fails changes nothing in the history,
\* which equals the messages of the request; a User message that was the last
\* message pushed is still the last message; no task exists, no further
\* request is built and control is back at the input loop.
C7_StreamCreationFailure ==
    [][(pc = "awaiting" /\ pc' = "input") =>
          /\ conversation_history' = conversation_history
          /\ conversation_history' = request
          /\ appended' = appended
          /\ Last(appended).role = "User" =>
                Last(conversation_history') = Last(appended)
          /\ tool_tasks' = <<>>
          /\ nRequests' = nRequests]_vars

C7_Witness ==
    /\ pc = "input"
    /\ nRequests >= 1
    /\ request = conversation_history
    /\ Last(conversation_history).role = "User"

-----------------------------------------------------------------------------
(* C8 *)

\* C8 (as claimed): once the stream has yielded an error item and ended, the
\* history is the one that was sent, no task was spawned and the round is over.
C8_StreamErrorAbortsRound ==
    (pc # "stream" /\ HasStreamError) =>
        /\ conversation_history = request
        /\ tool_tasks = <<>>
        /\ pc = "input"

-----------------------------------------------------------------------------
(* C9 *)

InvalidArguments == <<"{", "i", "n", "v", "a", "l", "i", "d">>

\* C9: once the spawn loop has run, a call whose arguments are "{invalid" has
\* a Tool message under its call id with a non-empty error text, and, its id
\* being that of no other call of the batch, no task was spawned for it.
C9_MalformedArguments ==
    pc \in {"joining", "loop"} =>
        \A k \in DOMAIN final_tool_calls :
            final_tool_calls[k].arguments = InvalidArguments =>
                /\ \E m \in ResultsWithId(final_tool_calls[k].id) :
                      IsInvalidArgumentsContent(BatchResults[m].content)
                /\ CallsWithId(final_tool_calls[k].id) = {k} =>
                      TasksWithId(final_tool_calls[k].id) = {}

C9_Witness ==
    /\ pc = "joining"
    /\ Len(final_tool_calls) = 2
    /\ final_tool_calls[1].arguments = InvalidArguments
    /\ final_tool_calls[1].id = "c1"
    /\ final_tool_calls[2].id = "c2"
    /\ Len(tool_tasks) = 1
    /\ tool_tasks[1].call_id = "c2"
    /\ Len(BatchResults) = 1

-----------------------------------------------------------------------------
(* C10 *)

UniqueId(k) == CallsWithId(final_tool_calls[k].id) = {k}

\* C10 (as claimed): a call whose arguments do not parse as a JSON object has
\* an error result and no task.
C10_NonObjectShortCircuits ==
    pc = "joining" =>
        \A k \in DOMAIN final_tool_calls :
            (UniqueId(k) /\
             ParseArguments(final_tool_calls[k].arguments).kind # "object") =>
                /\ TasksWithId(final_tool_calls[k].id) = {}
                /\ ResultsWithId(final_tool_calls[k].id) # {}

\* C10 (amended): a call whose arguments are not valid JSON has an error
\* result and no task; a call whose arguments are valid JSON but not an object
\* is spawned with no arguments (None) and gets no error result from the
\* spawn loop.
C10_InvalidJsonShortCircuits ==
    pc = "joining" =>
        \A k \in DOMAIN final_tool_calls :
            UniqueId(k) =>
                LET id == final_tool_calls[k].id
                    kind == ParseArguments(final_tool_calls[k].arguments).kind
                IN  /\ kind = "err" =>
                          /\ TasksWithId(id) = {}
                          /\ \E m \in ResultsWithId(id) :
                                IsInvalidArgumentsContent(BatchResults[m].content)
                    /\ kind = "other" =>
                          /\ ResultsWithId(id) = {}
                          /\ \E i \in TasksWithId(id) :
                                tool_tasks[i].arguments = None
                          /\ Cardinality(TasksWithId(id)) = 1

C10_Witness ==
    /\ pc = "joining"
    /\ Len(final_tool_calls) = 2
    /\ final_tool_calls[1].id # final_tool_calls[2].id
    /\ final_tool_calls[1].arguments = <<"1">>
    /\ final_tool_calls[2].arguments = InvalidArguments
    /\ Len(tool_tasks) = 1
    /\ tool_tasks[1].arguments = None
    /\ tool_tasks[1].result # "pending"

-----------------------------------------------------------------------------
(* C11: when, after trimming, a Tool message sits at index 1, the round is *)
(* aborted there: the step from the loop top sends no completion request,  *)
(* pushes no message and hands control back to the input loop.             *)

ToolAtIndex1(h) == Len(h) >= 2 /\ h[2].role = "Tool"

C11_DefensiveAbort ==
    [][(pc = "loop" /\ ToolAtIndex1(conversation_history'))
          => /\ pc' = "input"
             /\ request' = request
             /\ nRequests' = nRequests
             /\ appended' = appended
             /\ InternalErrorNotice \in Range(stdout')]_vars

\* the round has been aborted: the trimmed history starts with a Tool message
C11_Witness ==
    /\ pc = "input"
    /\ ToolAtIndex1(conversation_history)
    /\ Len(conversation_history) = MAX_CONVERSATION_DEPTH
    /\ stdout = <<InternalErrorNotice>>

-----------------------------------------------------------------------------
(* C12 *)

\* the text of the content chunks of a stream, in arrival order
RECURSIVE ReceivedContent(_)
ReceivedContent(items) ==
    IF items = <<>> THEN <<>>
    ELSE ApplyContent(<<>>, Head(items).content)
         \o ReceivedContent(Tail(items))

Notices ==
    {PromptNotice, InternalErrorNotice, StreamingNotice, CreateErrorNotice,
     StreamErrorNotice, EmptyResponseNotice, Newline}

\* what stdout shows besides the notices
PrintedText == SelectSeq(stdout, LAMBDA p : p \notin Notices)

\* C12: the step that ends a stream pushes exactly one Assistant message, with
\* the accumulated text and the completed tool calls; it goes on to the
\* dispatch of the tool calls exactly when there is at least one (whether or
\* not there is text), and otherwise ends the round, the text having been
\* printed when there is some and the empty-response notice when there is none.
C12_ResponseClassification ==
    [][(pc = "stream" /\ pc' # "stream") =>
          LET text == ReceivedContent(received)
              calls == final_tool_calls'
              first == Len(appended) + 1
          IN  /\ Len(appended') >= first
              /\ appended'[first].role = "Assistant"
              /\ appended'[first].content =
                     IF text = <<>> THEN None ELSE Some(text)
              /\ appended'[first].tool_calls =
                     IF calls = <<>> THEN None ELSE Some(calls)
              /\ Range(calls) = CompletedCalls(partial_tool_calls)
              /\ \A k \in first + 1 .. Len(appended') :
                     appended'[k].role # "Assistant"
              /\ pc' = IF calls # <<>> THEN "joining" ELSE "input"
              /\ PrintedText' = text
              /\ (EmptyResponseNotice \in Range(stdout'))
                     <=> (calls = <<>> /\ text = <<>>)]_vars

\* a response with text and a tool call went on to the dispatch
C12_Witness ==
    /\ pc = "joining"
    /\ full_response_content # <<>>
    /\ Last(appended).role = "Assistant"
    /\ Last(appended).content = Some(full_response_content)
    /\ Last(appended).tool_calls = Some(final_tool_calls)

-----------------------------------------------------------------------------
(* C13 *)

IsVisionFailedContent(content) ==
    /\ Len(content) = 2
    /\ content[1] = "Screenshot captured but vision analysis failed: "

\* a call of the batch just dispatched had malformed arguments, failed at the
\* peer, or had its screenshot fail in the vision analysis
BatchHadFailure ==
    \E m \in DOMAIN BatchResults :
        \/ IsInvalidArgumentsContent(BatchResults[m].content)
        \/ IsFailedMcpContent(BatchResults[m].content)
        \/ IsVisionFailedContent(BatchResults[m].content)

\* C13 (as claimed): the step that follows a dispatch cycle with such a
\* failure sends the next completion request of the same round, with the
\* results of the cycle at the tail of the request.
C13_FailureNeverEndsRound ==
    [][(AfterDispatch /\ BatchHadFailure /\ pc' # pc) =>
          /\ pc' = "awaiting"
          /\ nRequests' = nRequests + 1
          /\ Last(request') = Last(conversation_history)]_vars

-----------------------------------------------------------------------------
(* C14 *)

\* C14 (as claimed): a round that has started, or has come back from a
\* dispatch cycle to the top of the inner loop, eventually ends and hands
\* control back to the input loop.
C14_RoundTerminates == (pc = "loop") ~> (pc = "input")

-----------------------------------------------------------------------------
(* C15 *)

\* content is what call k of the batch produced: the parse error of its
\* arguments, or the outcome of the task spawned for it
ProducedBy(k, content) ==
    LET call == final_tool_calls[k] IN
    \/ /\ ParseArguments(call.arguments).kind = "err"
       /\ IsInvalidArgumentsContent(content)
       /\ content[2] = call.name
    \/ \E i \in DOMAIN tool_tasks :
          /\ tool_tasks[i].call_id = call.id
          /\ tool_tasks[i].tool_name = call.name
          /\ tool_tasks[i].result \notin {"pending", "join_err"}
          /\ \E vision \in VisionOutcomes :
                content = ResultContent(tool_tasks[i], vision)

\* C15: after a dispatch cycle every message that follows the Assistant
\* message is a Tool message whose tool_call_id is the id of a call of the
\* batch that produced its content, in whatever order the tasks finished.
C15_CallIdCorrelation ==
    AfterDispatch =>
        \A m \in DOMAIN BatchResults :
            /\ BatchResults[m].role = "Tool"
            /\ BatchResults[m].tool_call_id # None
            /\ \E k \in DOMAIN final_tool_calls :
                  /\ final_tool_calls[k].id = BatchResults[m].tool_call_id[1]
                  /\ ProducedBy(k, BatchResults[m].content)

\* two calls with different ids and different outcomes, each result filed
\* under the id of its own call
C15_Witness ==
    /\ AfterDispatch
    /\ Len(tool_tasks) = 2
    /\ tool_tasks[1].call_id # tool_tasks[2].call_id
    /\ tool_tasks[1].result = "text"
    /\ tool_tasks[2].result = "mcp_err"
    /\ Len(BatchResults) = 2
    /\ BatchResults[1].tool_call_id = Some(tool_tasks[1].call_id)
    /\ BatchResults[2].tool_call_id = Some(tool_tasks[2].call_id)
    /\ IsFailedMcpContent(BatchResults[2].content)

-----------------------------------------------------------------------------
(* C16 *)

\* the keys of a map in ascending order
RECURSIVE Ascending(_)
Ascending(S) ==
    IF S = {} THEN <<>>
    ELSE LET s == CHOOSE x \in S : \A y \in S : x <= y
         IN  <<s>> \o Ascending(S \ {s})

\* C16 (as claimed): the list of completed tool calls produced at stream end,
\* and with it the tool_calls of the Assistant message and the order of the
\* spawned tasks, is the one obtained by visiting the slots in ascending
\* index, whatever the order in which the fragments arrived.
C16_AscendingSlotOrder ==
    pc \in {"joining", "loop"} =>
        final_tool_calls
            = Finalize(partial_tool_calls, Ascending(DOMAIN partial_tool_calls))

-----------------------------------------------------------------------------
(* C17 *)

SlotHasId(s) ==
    \E k \in DOMAIN SlotFragments(s) : SlotFragments(s)[k].id # None

SlotHasName(s) ==
    \E k \in DOMAIN SlotFragments(s) : SlotFragments(s)[k].name # None

\* C17: at stream end there is one tool call for each slot for which both an
\* id and a name were received and none for any other slot; only these calls
\* are dispatched (a parse-error message or a task each), and the response is
\* recorded and classified as usual.
C17_IncompleteSlots ==
    pc # "stream" =>
        /\ Len(final_tool_calls)
               = Cardinality({s \in Slots : SlotHasId(s) /\ SlotHasName(s)})
        /\ Len(tool_tasks) + Len(BatchResults) = Len(final_tool_calls)
        /\ LastAssistant(conversation_history) = Len(request) + 1
        /\ pc = IF final_tool_calls # <<>> THEN "joining" ELSE "input"

\* slot 0 received argument text only, slot 1 an id and a name: one call
C17_Witness ==
    /\ pc = "joining"
    /\ SlotFragments(0) # <<>>
    /\ ~SlotHasId(0)
    /\ ~SlotHasName(0)
    /\ SlotHasId(1)
    /\ SlotHasName(1)
    /\ Len(final_tool_calls) = 1
    /\ Len(tool_tasks) + Len(BatchResults) = 1

-----------------------------------------------------------------------------
(* C18 *)

\* C18: the history is the first message ever pushed followed by the last
\* Len - 1 of all the messages ever pushed, in the order and with the content
\* they were pushed with.
C18_HistoryIsSuffix ==
    LET n == Len(conversation_history) - 1
        total == Len(appended)
    IN  /\ n >= 0
        /\ n < total
        /\ conversation_history[1] = appended[1]
        /\ SubSeq(conversation_history, 2, n + 1)
               = SubSeq(appended, total - n + 1, total)

\* a request was sent after the trim loop had removed the first User message
\* and the first dispatch cycle's messages
C18_Witness ==
    /\ pc = "awaiting"
    /\ Len(conversation_history) = MAX_CONVERSATION_DEPTH
    /\ Len(appended) >= MAX_CONVERSATION_DEPTH + 3
    /\ conversation_history[2].role = "Assistant"
    /\ conversation_history[2] = appended[Len(appended) - 13]

-----------------------------------------------------------------------------
(* C19 *)

ParsedCalls ==
    SelectSeq(final_tool_calls,
              LAMBDA c : ParseArguments(c.arguments).kind # "err")

\* C19: when the dispatcher starts to wait, one task has been spawned for
\* each call of the batch whose arguments parse, in the order of the calls;
\* when it has stopped waiting, every one of these tasks has finished, and
\* every task that returned, failed or not, has its Tool message.
C19_LaunchAllThenWaitAll ==
    /\ pc \in {"joining", "loop"} =>
          /\ Len(tool_tasks) = Len(ParsedCalls)
          /\ \A i \in DOMAIN tool_tasks :
                tool_tasks[i].call_id = ParsedCalls[i].id
    /\ AfterDispatch =>
          \A i \in DOMAIN tool_tasks :
              /\ tool_tasks[i].result # "pending"
              /\ tool_tasks[i].result # "join_err" =>
                    ResultsWithId(tool_tasks[i].call_id) # {}

\* the first task has failed at the peer while its sibling is still running
C19_Witness ==
    /\ pc = "joining"
    /\ Len(tool_tasks) = 2
    /\ tool_tasks[1].result = "mcp_err"
    /\ tool_tasks[2].result = "pending"

-----------------------------------------------------------------------------
(* C20 *)

\* C20 (as claimed): the Tool message stored for a screenshot is either the
\* description the vision analysis returned or, when the analysis failed, the
\* raw content the tool returned followed by a diagnostic note.
C20_VisionFallbackKeepsRaw ==
    AfterDispatch =>
        \A i \in DOMAIN tool_tasks :
            (/\ tool_tasks[i].tool_name = "capture_screen"
             /\ tool_tasks[i].result = "text"
             /\ HasBase64Data(tool_tasks[i].text)) =>
                \A m \in ResultsWithId(tool_tasks[i].call_id) :
                    \/ BatchResults[m].content = <<"vision description">>
                    \/ /\ Len(BatchResults[m].content) >= 2
                       /\ BatchResults[m].content[1] = tool_tasks[i].text

-----------------------------------------------------------------------------
(* C21 *)

\* C21: after a dispatch cycle, the text returned by a tool other than
\* capture_screen is the content of its Tool message and no vision request
\* was made for it; for capture_screen a vision request was made only when
\* the text holds a base64_data string, and without one the text is the
\* content of its Tool message.
C21_AugmentationConfined ==
    AfterDispatch =>
        \A i \in DOMAIN tool_tasks :
            tool_tasks[i].result = "text" =>
                LET task == tool_tasks[i]
                    unchanged ==
                        /\ ResultsWithId(task.call_id) # {}
                        /\ \A m \in ResultsWithId(task.call_id) :
                              BatchResults[m].content = <<task.text>>
                IN  /\ task.tool_name # "capture_screen" =>
                          /\ unchanged
                          /\ task.call_id \notin Range(vision_requests)
                    /\ task.tool_name = "capture_screen" =>
                          /\ task.call_id \in Range(vision_requests)
                                <=> HasBase64Data(task.text)
                          /\ ~HasBase64Data(task.text) => unchanged

\* click returned a text that holds a base64_data string, and it went into
\* the history as it was, with no vision request
C21_Witness ==
    /\ AfterDispatch
    /\ Len(tool_tasks) = 1
    /\ tool_tasks[1].tool_name = "click"
    /\ tool_tasks[1].result = "text"
    /\ HasBase64Data(tool_tasks[1].text)
    /\ Last(conversation_history).content = <<tool_tasks[1].text>>
    /\ vision_requests = <<>>

-----------------------------------------------------------------------------
(* C22 *)

\* the characters of text occur, in order and side by side, among the pieces
\* of content
Embeds(content, text) ==
    \E o \in 1..Len(content) + 1 :
        /\ o + Len(text) - 1 <= Len(content)
        /\ SubSeq(content, o, o + Len(text) - 1) = text

\* C22 (as claimed): the Tool message pushed for a call whose arguments do not
\* parse holds the parse error and the argument text the model sent.
C22_ErrorEmbedsRawArguments ==
    pc \in {"joining", "loop"} =>
        \A k \in DOMAIN final_tool_calls :
            ParseArguments(final_tool_calls[k].arguments).kind = "err" =>
                \A m \in ResultsWithId(final_tool_calls[k].id) :
                    IsInvalidArgumentsContent(BatchResults[m].content) =>
                        /\ ParseArguments(final_tool_calls[k].arguments).e
                               \in Range(BatchResults[m].content)
                        /\ Embeds(BatchResults[m].content,
                                  final_tool_calls[k].arguments)

-----------------------------------------------------------------------------
(* C23 *)

\* the first request of a round was [System, User] and its response was one
\* tool call, whose invocation returned text; the dispatch cycle is over
OneCallSucceeded ==
    /\ AfterDispatch
    /\ Len(request) = 2
    /\ request[2].role = "User"
    /\ Len(final_tool_calls) = 1
    /\ Len(tool_tasks) = 1
    /\ tool_tasks[1].result = "text"

\* C23: after that cycle the next request is exactly the System message, the
\* User message, the Assistant message with the one call and the Tool message
\* of that call; and when the stream answering such a request ends with text
\* and no tool call, one Assistant message is pushed and the round ends.
C23_EndToEnd ==
    [][/\ (OneCallSucceeded /\ pc' # pc) =>
             /\ pc' = "awaiting"
             /\ Len(request') = 4
             /\ SubSeq(request', 1, 2) = request
             /\ request'[3] =
                    AssistantMessage(ReceivedContent(received), final_tool_calls)
             /\ request'[4].role = "Tool"
             /\ request'[4].tool_call_id = Some(final_tool_calls[1].id)
             /\ \E vision \in VisionOutcomes :
                    request'[4].content = ResultContent(tool_tasks[1], vision)
       /\ (/\ pc = "stream"
           /\ pc' # "stream"
           /\ Len(request) = 4
           /\ request[3].role = "Assistant"
           /\ request[4].role = "Tool"
           /\ final_tool_calls' = <<>>
           /\ ReceivedContent(received) # <<>>) =>
             /\ pc' = "input"
             /\ conversation_history' =
                    Append(request,
                           AssistantMessage(ReceivedContent(received), <<>>))
             /\ appended' = conversation_history']_vars

\* the scenario has run to its end
C23_Witness ==
    /\ pc = "input"
    /\ nRequests = 2
    /\ Len(request) = 4
    /\ request[3].role = "Assistant"
    /\ Len(request[3].tool_calls[1]) = 1
    /\ request[4].role = "Tool"
    /\ request[4].content = <<"ok">>
    /\ conversation_history = Append(request, AssistantMessage(<<"D">>, <<>>))

-----------------------------------------------------------------------------
(* C24, C25 *)

\* the fragments of slot s that carry an id, a name, argument text
SlotIds(s) == SelectSeq(SlotFragments(s), LAMBDA f : f.id # None)

SlotNames(s) == SelectSeq(SlotFragments(s), LAMBDA f : f.name # None)

RECURSIVE ConcatArguments(_)
ConcatArguments(frags) ==
    IF frags = <<>> THEN <<>>
    ELSE (IF Head(frags).arguments # None THEN Head(frags).arguments[1]
          ELSE <<>>)
         \o ConcatArguments(Tail(frags))

\* the calls emitted with the id and the name received last for slot s
CallsOfSlot(s) ==
    {k \in DOMAIN final_tool_calls :
        /\ final_tool_calls[k].id = Last(SlotIds(s)).id[1]
        /\ final_tool_calls[k].name = Last(SlotNames(s)).name[1]}

\* C24: at stream end, a slot for which an id and a name were received has an
\* emitted call whose id is the last id and whose name is the last name
\* received for the slot.
C24_LastIdAndNameWin ==
    pc # "stream" =>
        \A s \in Slots :
            (SlotHasId(s) /\ SlotHasName(s)) => CallsOfSlot(s) # {}

\* slot 0 received the ids c1 and then c2 and the names capture_screen and
\* then click, and a fragment with neither after them
C24_Witness ==
    /\ pc # "stream"
    /\ Len(SlotIds(0)) = 2
    /\ SlotIds(0)[1].id = Some("c1")
    /\ SlotIds(0)[2].id = Some("c2")
    /\ Len(SlotNames(0)) = 2
    /\ SlotNames(0)[1].name = Some("capture_screen")
    /\ SlotNames(0)[2].name = Some("click")
    /\ Last(SlotFragments(0)).id = None
    /\ Last(SlotFragments(0)).name = None
    /\ final_tool_calls[1].id = "c2"
    /\ final_tool_calls[1].name = "click"

\* C25: at stream end, the arguments of the call emitted for a slot are the
\* argument chunks received for that slot, joined in their arrival order,
\* whatever was received for other slots in between.
C25_ArgumentsConcatenated ==
    pc # "stream" =>
        \A s \in Slots :
            (SlotHasId(s) /\ SlotHasName(s)) =>
                \E k \in CallsOfSlot(s) :
                    final_tool_calls[k].arguments
                        = ConcatArguments(SlotFragments(s))

\* the two chunks of slot 0 arrived around a chunk of slot 1
C25_Witness ==
    /\ pc # "stream"
    /\ Len(final_tool_calls) = 2
    /\ LET fr == AllFragments(received) IN
       /\ Len(fr) = 4
       /\ fr[2].index = 0 /\ fr[2].arguments = Some(<<"{">>)
       /\ fr[3].index = 1 /\ fr[3].arguments # None
       /\ fr[4].index = 0 /\ fr[4].arguments = Some(<<"}">>)
    /\ \E k \in DOMAIN final_tool_calls :
          final_tool_calls[k].arguments = <<"{", "}">>

-----------------------------------------------------------------------------
(* C26 *)

\* C26 (as claimed): the trim loop never leaves a Tool message at index 1,
\* and the check that follows it never fires.
C26_CheckNeverFires ==
    /\ pc # "loop" => ~ToolAtIndex1(conversation_history)
    /\ InternalErrorNotice \notin Range(stdout)

-----------------------------------------------------------------------------
(* C27 *)

\* C27: a request that has been sent holds at most MAX_CONVERSATION_DEPTH
\* messages, the first of them the System prompt, and while it is awaited it
\* is the history as the trim loop left it.
C27_RequestIsTrimmedHistory ==
    request # <<>> =>
        /\ Len(request) <= MAX_CONVERSATION_DEPTH
        /\ request[1] = SystemMessage
        /\ pc \in {"awaiting", "stream"} =>
              SubSeq(conversation_history, 1, Len(request)) = request
        /\ pc = "awaiting" => request = conversation_history

\* a request of exactly MAX_CONVERSATION_DEPTH messages was sent after the
\* trim loop had removed three messages
C27_Witness ==
    /\ pc = "awaiting"
    /\ Len(request) = MAX_CONVERSATION_DEPTH
    /\ Len(appended) = MAX_CONVERSATION_DEPTH + 3
    /\ request[1] = SystemMessage
    /\ request[2].role = "Assistant"

-----------------------------------------------------------------------------
(* C28 *)

\* the ids of the tool calls of message m
CallIds(m) ==
    IF m.tool_calls = None THEN {}
    ELSE {m.tool_calls[1][k].id : k \in DOMAIN m.tool_calls[1]}

\* C28: in a request that has been sent, every Tool message comes after an
\* Assistant message that holds a tool call with its id, and between the two
\* there are only Tool messages answering calls of that Assistant message.
C28_NoOrphanedToolResult ==
    \A i \in DOMAIN request :
        request[i].role = "Tool" =>
            \E a \in 1..i - 1 :
                /\ request[a].role = "Assistant"
                /\ \A j \in a + 1..i :
                      /\ request[j].role = "Tool"
                      /\ request[j].tool_call_id[1] \in CallIds(request[a])

\* a request was sent after the trim loop had removed the first Assistant
\* message together with its Tool result
C28_Witness ==
    /\ pc = "awaiting"
    /\ Len(request) = MAX_CONVERSATION_DEPTH
    /\ Len(appended) >= MAX_CONVERSATION_DEPTH + 3
    /\ appended[3].role = "Assistant"
    /\ appended[4].role = "Tool"
    /\ request[2].role = "Assistant"
    /\ request[3].role = "Tool"
    /\ request[3].tool_call_id[1] \in CallIds(request[2])

-----------------------------------------------------------------------------
(* C29 *)

\* the number of Tool messages that follow the System message without a gap
RECURSIVE ToolPrefix(_)
ToolPrefix(h) ==
    IF h = <<>> \/ Head(h).role # "Tool" THEN 0
    ELSE 1 + ToolPrefix(Tail(h))

LeadingTools(h) == ToolPrefix(Tail(h))

\* C29: when a user input is handled while a Tool message sits at index 1
\* (the state an aborted round leaves behind), the step from the loop top
\* removes exactly one of the leading Tool messages; it aborts again while
\* one is left and sends a request when none is, so that the check fires on at
\* most as many inputs as there were leading Tool messages.
C29_RecoveryAfterAbort ==
    [][(pc = "loop" /\ ToolAtIndex1(conversation_history) /\ pc' # pc) =>
          /\ Last(conversation_history).role = "User"
          /\ Last(conversation_history') = Last(conversation_history)
          /\ LeadingTools(conversation_history')
                 = LeadingTools(conversation_history) - 1
          /\ LeadingTools(conversation_history') > 0 =>
                 /\ pc' = "input"
                 /\ nRequests' = nRequests
          /\ LeadingTools(conversation_history') = 0 =>
                 /\ pc' = "awaiting"
                 /\ nRequests' = nRequests + 1
                 /\ request' = conversation_history']_vars

\* a round of five responses with two tool calls each was aborted with two
\* Tool messages in front; the check fired again on the next input, and the
\* input after that has led to a request
C29_Witness ==
    /\ pc = "awaiting"
    /\ nRequests = 6
    /\ Len(appended) = 19
    /\ appended[17].role = "Tool"
    /\ appended[18].role = "User"
    /\ appended[19].role = "User"
    /\ Len(request) = MAX_CONVERSATION_DEPTH
    /\ request[2].role = "Assistant"
    /\ Last(request).role = "User"

-----------------------------------------------------------------------------
(* C30 *)

\* the tool_call_id of each message of a sequence of Tool messages
IdsOf(msgs) == [k \in DOMAIN msgs |-> msgs[k].tool_call_id[1]]

\* the call_id of each task, the id of each call
TaskIds(tasks) == [k \in DOMAIN tasks |-> tasks[k].call_id]

CallIdsInOrder(calls) == [k \in DOMAIN calls |-> calls[k].id]

\* C30: after a dispatch cycle the Tool messages of the batch are the
\* parse-error messages, in the order of their calls, followed by the results
\* of the spawned tasks that returned, in the order in which the tasks were
\* spawned, in whatever order the tasks finished.
C30_BatchOrder ==
    AfterDispatch =>
        LET errors == SelectSeq(BatchResults,
                          LAMBDA m : IsInvalidArgumentsContent(m.content))
            results == SelectSeq(BatchResults,
                          LAMBDA m : ~IsInvalidArgumentsContent(m.content))
            unparsed == SelectSeq(final_tool_calls,
                          LAMBDA c : ParseArguments(c.arguments).kind = "err")
            returned == SelectSeq(tool_tasks,
                          LAMBDA t : t.result # "join_err")
        IN  /\ BatchResults = errors \o results
            /\ IdsOf(errors) = CallIdsInOrder(unparsed)
            /\ IdsOf(results) = TaskIds(returned)

\* the first call was spawned and the second did not parse: the error message
\* of the second comes before the result of the first
C30_Witness ==
    /\ AfterDispatch
    /\ Len(final_tool_calls) = 2
    /\ ParseArguments(final_tool_calls[1].arguments).kind # "err"
    /\ ParseArguments(final_tool_calls[2].arguments).kind = "err"
    /\ final_tool_calls[1].id # final_tool_calls[2].id
    /\ Len(BatchResults) = 2
    /\ BatchResults[1].tool_call_id = Some(final_tool_calls[2].id)
    /\ BatchResults[2].tool_call_id = Some(final_tool_calls[1].id)

-----------------------------------------------------------------------------
(* C31 *)

\* the number of tool calls of message m
CallCount(m) == IF m.tool_calls = None THEN 0 ELSE Len(m.tool_calls[1])

\* K: the largest number of tool calls in a single response so far
MaxCalls ==
    LET counts == {CallCount(appended[i]) : i \in DOMAIN appended}
    IN  CHOOSE k \in counts : \A c \in counts : c <= k

\* C31 (as claimed): the history never holds more than
\* MAX_CONVERSATION_DEPTH + 1 + K messages.
C31_LengthBound ==
    Len(conversation_history) <= MAX_CONVERSATION_DEPTH + 1 + MaxCalls

\* C31 (amended): the history never holds more than MAX_CONVERSATION_DEPTH + 2
\* messages when no response had a tool call, and never more than
\* MAX_CONVERSATION_DEPTH + 1 + K otherwise.
C31_LengthBoundOrTwo ==
    Len(conversation_history)
        <= MAX_CONVERSATION_DEPTH + (IF MaxCalls = 0 THEN 2 ELSE 1 + MaxCalls)

\* no response had a tool call, and the Assistant message of one round and the
\* User message of the next were pushed onto a trimmed history
C31_Witness ==
    /\ MaxCalls = 0
    /\ pc = "loop"
    /\ Len(conversation_history) = MAX_CONVERSATION_DEPTH + 2
    /\ Last(conversation_history).role = "User"

-----------------------------------------------------------------------------
(* C32, C33: the computer-use loop *)

\* the computer call the loop takes from the response at cu_trace[i]
CallOfResponseAt(i) == FirstComputerCall(cu_trace[i].response[1].output)

\* cu_trace[i] is a call of one of the action tools that failed at the peer
FailedActionAt(i) ==
    /\ cu_trace[i].ev = "call_tool"
    /\ cu_trace[i].tool # "capture_screen"
    /\ ~cu_trace[i].ok

\* cu_trace[i] is a response asking for an action the loop does not handle
UnhandledActionAt(i) ==
    /\ cu_trace[i].ev = "response"
    /\ CallOfResponseAt(i) # None
    /\ CallOfResponseAt(i)[1].action \notin HandledActions

\* C32: when the requested action fails at the capability peer, or is not
\* one of Click, Scroll, KeyPress, Type, Wait, the loop stops: nothing
\* follows in the trace, neither a capture_screen call nor a request to the
\* model.
C32_FailedActionStopsLoop ==
    \A i \in DOMAIN cu_trace :
        /\ FailedActionAt(i) => i = Len(cu_trace) /\ cu_pc = "stopped"
        /\ UnhandledActionAt(i) =>
               i = Len(cu_trace) /\ cu_pc \in {"respond", "stopped"}

\* the second action of a run failed at the peer and the loop has stopped
C32_Witness ==
    /\ cu_pc = "stopped"
    /\ Len(cu_trace) = 7
    /\ FailedActionAt(7)
    /\ cu_trace[3].ok

\* the three events that follow, in this order, the response at
\* cu_trace[i] when it requests a handled action and nothing fails
ExpectedAfterResponse(i) ==
    LET call == CallOfResponseAt(i)[1]
    IN  <<CallToolEvent(ToolOfAction(call.action), TRUE),
          CallToolEvent("capture_screen", TRUE),
          RequestEvent(Some(FollowUpRequest(call.call_id,
                                            cu_trace[i].response[1].id)))>>

\* C33: after every response that requests an action the trace goes on with
\* the execution of that action, then the screen capture, then one request
\* whose call_id is the call_id of the action and whose previous_response_id
\* is the id of that response, and after that request comes the next
\* response, not another request (a failed step ends the trace there, see
\* C32); nothing follows a response without an action; and a request is
\* either the first event or such a follow-up.
C33_LoopOrdering ==
    /\ \A i \in DOMAIN cu_trace :
           cu_trace[i].ev = "response" =>
               IF CallOfResponseAt(i) = None
               THEN i = Len(cu_trace) /\ cu_pc \in {"respond", "stopped"}
               ELSE IF CallOfResponseAt(i)[1].action \notin HandledActions
               THEN TRUE
               ELSE /\ \A j \in 1..3 :
                           i + j <= Len(cu_trace) =>
                               \/ cu_trace[i + j] = ExpectedAfterResponse(i)[j]
                               \/ /\ j < 3
                                  /\ i + j = Len(cu_trace)
                                  /\ cu_trace[i + j] =
                                         [ExpectedAfterResponse(i)[j]
                                              EXCEPT !.ok = FALSE]
                    /\ i + 4 <= Len(cu_trace) =>
                           cu_trace[i + 4].ev = "response"
                    /\ (i + 2 = Len(cu_trace) /\ cu_pc = "create") =>
                           current_request =
                               ExpectedAfterResponse(i)[3].request[1]
    /\ \A i \in DOMAIN cu_trace :
           cu_trace[i].ev = "request" =>
               \/ i = 1 /\ cu_trace[i].request = Some(InitialRequest)
               \/ i > 4 /\ cu_trace[i - 3].ev = "response"

\* two follow-up requests were sent, for different calls and after
\* responses with different ids, and the third response ended the loop
C33_Witness ==
    /\ Len(cu_trace) = 10
    /\ cu_pc = "stopped"
    /\ cu_trace[5].request[1].call_id = Some("call_1")
    /\ cu_trace[5].request[1].previous_response_id = Some("resp_1")
    /\ cu_trace[9].request[1].call_id = Some("call_2")
    /\ cu_trace[9].request[1].previous_response_id = Some("resp_2")
    /\ CallOfResponseAt(10) = None

-----------------------------------------------------------------------------
(* C34, C35, C36: the key-press handler *)

\* the Key of the i-th name of the request
KeyAt(i) ==
    IF KeyOf(params_keys[i]) = None THEN <<"Unsupported">>
    ELSE KeyOf(params_keys[i])[1]

\* all keys of the request pressed in the given order, then released in
\* reverse order
PressAllThenReleaseReversed ==
    LET n == Len(params_keys)
    IN  [i \in 1..(2 * n) |->
            IF i <= n THEN PressEvent(KeyAt(i))
            ELSE ReleaseEvent(KeyAt(2 * n + 1 - i))]

IsPrefix(s, t) == Len(s) <= Len(t) /\ s = SubSeq(t, 1, Len(s))

\* C34: the key events of a call are, in this order, the presses of all
\* keys of the request in the given order and then their releases in
\* reverse order: the events emitted so far are always a beginning of that
\* sequence, a call that returns success has emitted all of it, and every
\* release comes after the press of the last key.
C34_PressAllThenReleaseReversed ==
    /\ IsPrefix(key_events, PressAllThenReleaseReversed)
    /\ kp_result = Some(KpSuccess) =>
           key_events = PressAllThenReleaseReversed
    /\ \A i \in DOMAIN key_events :
           key_events[i][1] = "Release" =>
               /\ i > Len(params_keys)
               /\ key_events[Len(params_keys)] =
                      PressEvent(KeyAt(Len(params_keys)))

\* a call with three different keys has returned success
C34_Witness ==
    /\ kp_result = Some(KpSuccess)
    /\ params_keys = <<<<"c", "t", "r", "l">>, <<"S", "h", "i", "f", "t">>,
                       <<"C">>>>
    /\ Len(key_events) = 6

\* C35: when the handler has returned, with success or with an error, every
\* Press event it emitted has been followed by a Release of the same key.
C35_NoKeyLeftDown ==
    kp_pc = "returned" =>
        \A i \in DOMAIN key_events :
            key_events[i][1] = "Press" =>
                \E j \in (i + 1)..Len(key_events) :
                    key_events[j] = ReleaseEvent(key_events[i][2])

\* some name of the request is unsupported
HasUnsupportedKey ==
    \E i \in DOMAIN params_keys : KeyOf(params_keys[i]) = None

\* C36: when some key name of the request is unsupported, wherever it is in
\* the list, the handler emits no key event and never enters the press
\* loop, and the error it returns is the invalid-params error (unless
\* Enigo::new had already failed, before the list was looked at).
C36_ValidateBeforeActing ==
    HasUnsupportedKey =>
        /\ key_events = <<>>
        /\ kp_pc \in {"idle", "validate", "returned"}
        /\ kp_pc = "returned" =>
               kp_result \in {Some(KpInvalidParams),
                              Some(KpInternalError("Enigo::new"))}

\* a call whose last name is the unsupported one has returned invalid-params
C36_Witness ==
    /\ kp_pc = "returned"
    /\ kp_result = Some(KpInvalidParams)
    /\ params_keys = <<<<"c", "t", "r", "l">>, <<"C">>,
                       <<"h", "y", "p", "e", "r">>>>
    /\ key_enums = <<<<"Control">>, <<"Unicode", "c">>>>
    /\ key_events = <<>>

=============================================================================
